---- MODULE Spec2Model ----
(***************************************************************************)
(* Session lifecycle of duplicati_client.py: the configuration record      *)
(* `data` in memory and in the configuration file, the login handshake,    *)
(* logout, verify_token, check_response and the authenticated commands     *)
(* that call them.  One command invocation (one process run of main) is    *)
(* active at a time; the configuration file outlives the invocations.      *)
(*                                                                         *)
(* Time is in seconds.  An action is one stretch of code between two       *)
(* points where the process blocks (an HTTP request, a prompt, a sleep);   *)
(* the clock may advance between two actions.  The server is the           *)
(* environment: it answers each request with any status of Statuses.       *)
(***************************************************************************)
EXTENDS Integers, Sequences, FiniteSets, TLC

\* ------------------------------------------------------------------ bounds
MaxTicks == 2        \* how many times the clock advances in one behaviour
MaxTokens == 1       \* distinct values the server issues for a cookie
MaxIds == 2          \* ids given to `get backup`
MaxColons == 3       \* colons in an override given to login

\* --------------------------------------------------------------- constants
TTL == 600           \* datetime.timedelta(0, 600)
FollowInterval == 10 \* follow_function(function, 10)
None == -1           \* Python's None as the value of a key
NoKey == -2          \* the key is not in the dict

Statuses == {200, 302, 400, 404, 500, 503}
Tokens == 1..MaxTokens     \* values of the xsrf-token cookie
Nonces == {1}              \* values of the Nonce of login.cgi (opaque to the client)
SessionAuths == {1}        \* values of the session-auth cookie (opaque to the client)

\* Strings that the code takes apart are sequences of one-character strings.
HTTP == <<"h", "t", "t", "p">>
HTTPS == <<"h", "t", "t", "p", "s">>
LOCALHOST == <<"l", "o", "c", "a", "l", "h", "o", "s", "t">>
PORT8200 == <<"8", "2", "0", "0">>
Digits == {"0", "1", "2", "3", "4", "5", "6", "7", "8", "9"}

\* The module-level default of `data`.
data ==
    [server |-> <<HTTP, LOCALHOST, PORT8200>>,
     token |-> None,
     token_expires |-> None,
     last_login |-> None,
     nonce |-> NoKey,
     session_auth |-> NoKey,
     verbose |-> FALSE]

\* r.json()["data"] of GET /api/v1/backup/<id>: a dict of the server's, with
\* none of the configuration's keys.
backup_json ==
    [server |-> <<>>,
     token |-> NoKey,
     token_expires |-> NoKey,
     last_login |-> NoKey,
     nonce |-> NoKey,
     session_auth |-> NoKey,
     verbose |-> FALSE]

\* ------------------------------------------------------- string functions
RECURSIVE Remove(_, _)
\* str.replace(c, "")
Remove(s, c) ==
    IF s = <<>> THEN <<>>
    ELSE IF Head(s) = c THEN Remove(Tail(s), c)
    ELSE <<Head(s)>> \o Remove(Tail(s), c)

RECURSIVE Count(_, _)
\* str.count(c)
Count(s, c) ==
    IF s = <<>> THEN 0
    ELSE (IF Head(s) = c THEN 1 ELSE 0) + Count(Tail(s), c)

\* str.index(c), 0-based; the caller has checked that c occurs
Index(s, c) == (CHOOSE i \in 1..Len(s) : s[i] = c /\ \A j \in 1..(i - 1) : s[j] # c) - 1

RECURSIVE Split(_, _)
\* str.split(c)
Split(s, c) ==
    IF Count(s, c) = 0 THEN <<s>>
    ELSE LET i == Index(s, c) + 1
         IN <<SubSeq(s, 1, i - 1)>> \o Split(SubSeq(s, i + 1, Len(s)), c)

\* ''.join(re.findall(r'\d+', s))
StripNonDigits(s) == SelectSeq(s, LAMBDA ch : ch \in Digits)

LowerChar(ch) ==
    CASE ch = "H" -> "h" [] ch = "T" -> "t" [] ch = "P" -> "p" [] ch = "S" -> "s"
      [] OTHER -> ch

\* str.lower()
Lower(s) == [i \in 1..Len(s) |-> LowerChar(s[i])]

\* Lines 753-768: the override taken apart.  ok = FALSE is the "Invalid URL"
\* branch.
ParseUrl(input_url) ==
    LET u == Remove(Remove(input_url, "/"), "_")
        count == Count(u, ":")
        parts == Split(u, ":")
    IN  IF count = 2
          THEN [ok |-> TRUE, protocol |-> parts[1], url |-> parts[2], port |-> parts[3]]
        ELSE IF count = 1 /\ Index(u, ":") < 6
          THEN [ok |-> TRUE, protocol |-> parts[1], url |-> parts[2], port |-> <<>>]
        ELSE IF count = 1
          THEN [ok |-> TRUE, protocol |-> <<>>, url |-> parts[1], port |-> parts[2]]
        ELSE IF count = 0
          THEN [ok |-> TRUE, protocol |-> <<>>, url |-> u, port |-> <<>>]
        ELSE [ok |-> FALSE, protocol |-> <<>>, url |-> <<>>, port |-> <<>>]

\* Lines 770-779: the port stripped of non-digits, and every missing part
\* taken from the configuration.
ResolveServer(d, p) ==
    LET port == StripNonDigits(p.port)
    IN  <<IF Lower(p.protocol) \notin {HTTP, HTTPS} THEN d.server[1] ELSE p.protocol,
          IF p.url = <<>> THEN d.server[2] ELSE p.url,
          IF port = <<>> THEN d.server[3] ELSE port>>

\* The parts an override is put together from: nothing, a protocol of the
\* list, other words of fewer than six characters, hosts of six characters
\* and more, with and without "_" and "/", and ports with and without
\* characters that are not digits.
Segments ==
    {<<>>, HTTPS, <<"f", "t", "p">>, <<"n", "a", "s">>, <<"m", "y", "s", "e", "r", "v", "e", "r">>, <<"m", "y", "_", "s", "r", "v">>, <<"/", "/", "s", "r", "v">>, <<"8", "2", "0", "0">>, <<"8", "a", "2", "/">>}

\* The parts that follow a third colon: login counts the colons of such an
\* override and looks at nothing else.
TailSegments == {<<>>, <<"n", "a", "s">>}

RECURSIVE Joined(_)
\* The strings of k + 1 parts with a ":" between two parts.
Joined(k) ==
    IF k = 0 THEN Segments
    ELSE {a \o <<":">> \o b : a \in Joined(k - 1),
                              b \in IF k <= 2 THEN Segments ELSE TailSegments}

\* The overrides a caller can give to login, with up to MaxColons colons.
UrlInputs == UNION {Joined(k) : k \in 0..MaxColons}

\* The overrides given to `login` on the command lines of Invocations.
Overrides ==
    {<<"h", "t", "t", "p", "s", ":", "/", "/", "s", "r", "v", ":", "8", "2">>,
     <<"a", ":", "b", ":", "c", ":", "d">>}

\* ------------------------------------------------------ session functions
\* validate_config: the required keys are present.
validate_config(d) ==
    /\ d.server # <<>>
    /\ d.token # NoKey
    /\ d.token_expires # NoKey

\* write_config / load_config: yaml.dump of the dict, yaml.safe_load of the
\* file.  The file holds the dict's keys and values.
write_config(d) == d

\* verify_token, lines 1161-1165: the naive datetime is labelled UTC and then
\* expressed in the local zone.  An aware datetime is compared by its instant.
Normalise(t) == [instant |-> t, tz |-> "local"]

After(a, b) == a.instant > b.instant

\* verify_token with the comparison the other way round.
verify_token_inverted(d, t) ==
    IF d.token = None \/ d.token = NoKey
       \/ d.token_expires = None \/ d.token_expires = NoKey
      THEN "NotLoggedIn"
    ELSE IF After(Normalise(d.token_expires), Normalise(t)) THEN "TokenExpired"
    ELSE "ok"

\* verify_token without the check of token_expires.
verify_token_no_expiry(d, t) ==
    IF d.token = None \/ d.token = NoKey
       \/ d.token_expires = None \/ d.token_expires = NoKey
      THEN "NotLoggedIn"
    ELSE "ok"

\* verify_token, lines 1152-1170: "ok", or the reason of sys.exit(2).
verify_token(d, t) ==
    IF d.token = None \/ d.token = NoKey
       \/ d.token_expires = None \/ d.token_expires = NoKey
      THEN "NotLoggedIn"
    ELSE IF After(Normalise(t), Normalise(d.token_expires)) THEN "TokenExpired"
    ELSE "ok"

\* A check_response that ends the process on every error status.
CheckExitsOnError(status) == status >= 400

\* check_response, lines 1176-1184: the statuses that end the process.
CheckExits(status) == status \in {400, 503}

CheckError(status) == IF status = 400 THEN "SessionExpired" ELSE "ServerUnavailable"

\* A refresh on every status that does not end the process.
RefreshesUnlessExit(status) == ~CheckExits(status)

\* check_response, line 1187: the status that refreshes the token.
Refreshes(status) == status = 200

\* A check_response that refreshes to twice the lifetime.
check_response_double(d, status, t) ==
    IF Refreshes(status) THEN [d EXCEPT !.token_expires = t + 2 * TTL] ELSE d

\* check_response, lines 1187-1189: the dict after the call.
check_response(d, status, t) ==
    IF Refreshes(status) THEN [d EXCEPT !.token_expires = t + TTL] ELSE d

\* A check_response that writes the dict whatever the status.
check_response_file_always(file, d, status, t) == write_config(check_response(d, status, t))

\* check_response, line 1190: the file after the call.
check_response_file(file, d, status, t) ==
    IF Refreshes(status) THEN write_config(check_response(d, status, t)) ELSE file

\* A logout that drops the nonce and keeps the token.
logout_nonce(d) == [d EXCEPT !.nonce = NoKey]

\* A logout that drops the expiry as well.
logout_expires(d) == [d EXCEPT !.token = None, !.token_expires = None]

\* A logout that drops the expiry and keeps the token.
logout_expiry_only(d) == [d EXCEPT !.token_expires = None]

\* logout, line 851.
logout(d) == [d EXCEPT !.token = None]

\* A login that stores the time of the login as the expiry.
AuthenticatedNoTTL(d, tok, t) ==
    [d EXCEPT !.token = tok, !.token_expires = t, !.last_login = t]

\* login, lines 839-842.
Authenticated(d, tok, t) ==
    [d EXCEPT !.token = tok, !.token_expires = t + TTL, !.last_login = t]

\* create_cookies, lines 1208-1221: the cookies of an authenticated request.
create_cookies(d) ==
    IF d.nonce \in {None, NoKey}
      THEN [name \in {"xsrf-token"} |-> d.token]
    ELSE [name \in {"xsrf-token", "session-nonce", "session-auth"} |->
            CASE name = "xsrf-token" -> d.token
              [] name = "session-nonce" -> d.nonce
              [] OTHER -> d.session_auth]

\* ------------------------------------------------------------------ state
VARIABLES
    now,      \* datetime.datetime.now(), in seconds
    ticks,    \* how many times the clock has advanced
    disk,     \* the dict in the configuration file
    mem,      \* the dict `data` of main
    loc,      \* fetch_backups: its name `data`, the loop index, len(backup_list)
    token,    \* login: its local `token`
    pc,       \* where the invocation is
    cmd,      \* sys.argv[1]
    arg,      \* the arguments of the command
    exit,     \* the exit status of the process, NoKey while it runs
    err,      \* the error reported by the invocation, "none" if none
    h         \* what has happened, kept for the properties (never read by the code)

vars == <<now, ticks, disk, mem, loc, token, pc, cmd, arg, exit, err, h>>

NoArg == [kind |-> "-", n |-> 1, follow |-> FALSE, confirm |-> FALSE,
          file |-> "-", url |-> <<>>, override |-> TRUE]

\* The command lines explored: the sub-command and what its arguments select.
Invocations ==
    {[cmd |-> "login", arg |-> [NoArg EXCEPT !.url = u]] : u \in Overrides}
    \cup {[cmd |-> "logout", arg |-> NoArg]}
    \cup {[cmd |-> "list", arg |-> [NoArg EXCEPT !.kind = k]] : k \in {"backups", "other"}}
    \cup {[cmd |-> "get", arg |-> [NoArg EXCEPT !.kind = "backup", !.n = n]] : n \in 1..MaxIds}
    \cup {[cmd |-> c, arg |-> [NoArg EXCEPT !.kind = "notification"]] : c \in {"get", "describe"}}
    \cup {[cmd |-> "describe", arg |-> [NoArg EXCEPT !.kind = "backup"]]}
    \cup {[cmd |-> "logs", arg |-> [NoArg EXCEPT !.kind = k, !.follow = f]] :
             k \in {"log", "noid"}, f \in BOOLEAN}
    \cup {[cmd |-> c, arg |-> NoArg] : c \in {"run", "abort", "export"}}
    \cup {[cmd |-> "delete", arg |-> [NoArg EXCEPT !.confirm = c]] : c \in BOOLEAN}
    \cup {[cmd |-> "import", arg |-> [NoArg EXCEPT !.kind = k, !.file = f]] :
             k \in {"create", "update"}, f \in {"ok", "missing", "unparsable", "badext"}}

\* The commands that need a session.
AuthCmds == {"list", "get", "describe", "logs", "run", "abort", "delete", "import", "export"}

NoLoc == [alias |-> TRUE, d |-> backup_json, i |-> 1, got |-> 0]

\* The history of one invocation, as it starts.
NewHistory(file, old) ==
    [disk0 |-> file,          \* the file when the invocation started
     auth |-> "none",         \* the result of verify_token
     session |-> "none",      \* the session as verify_token found it: "absent" (no
                              \* token), or token_expires in the "future", "equal"
                              \* to the time of the call, or in the "past"
     nreq |-> 0,              \* HTTP requests sent
     status |-> None,         \* the status of the last response
     badReq |-> FALSE,        \* a request after the first one was sent with the
                              \* session's cookies while the token was absent or
                              \* the clock was after token_expires
     exp400 |-> NoKey,        \* token_expires (of the dict in memory) when a request
                              \* with the session's cookies was first answered 400
     hsToken |-> None,        \* the xsrf-token cookie the server set in this login
     log |-> <<>>,            \* login: its requests and their statuses, in order
     mid |-> <<>>,            \* login: the record check_response wrote to the file
                              \* before login's own write replaced it
     outcome |-> "none",      \* login: "AUTHENTICATED" or "FAILED"
     loggedOut |-> old.loggedOut,   \* a logout has run and no login succeeded since
     prevLogin |-> old.prevLogin]   \* the invocation before this one was a login
                                    \* that reached AUTHENTICATED

Init ==
    /\ now = 0
    /\ ticks = 0
    /\ disk = write_config(data)
    /\ mem = data
    /\ loc = NoLoc
    /\ token = None
    /\ pc = "idle"
    /\ cmd = "-"
    /\ arg = NoArg
    /\ exit = NoKey
    /\ err = "none"
    /\ h = NewHistory(data, [loggedOut |-> FALSE, prevLogin |-> FALSE])

\* sys.exit(code), or main returning (code 0), or an uncaught exception (code 1).
Finish(code, e) ==
    /\ pc' = "done"
    /\ exit' = code
    /\ err' = e

\* What the history keeps of a request sent with the session's cookies.
Sent(status) ==
    [h EXCEPT !.nreq = @ + 1,
              !.status = status,
              !.badReq = @ \/ /\ h.nreq > 0
                              /\ \/ mem.token \in {None, NoKey}
                                 \/ mem.token_expires \in {None, NoKey}
                                 \/ now > mem.token_expires,
              !.exp400 = IF status = 400 /\ @ = NoKey THEN mem.token_expires ELSE @]

\* The clock advances, by a second or by the lifetime of a token.
Tick ==
    /\ ticks < MaxTicks
    /\ \E d \in {1, TTL} : now' = now + d
    /\ ticks' = ticks + 1
    /\ UNCHANGED <<disk, mem, loc, token, pc, cmd, arg, exit, err, h>>

\* main, lines 40-58: a new process loads the configuration file; invs are
\* the command lines it may have been started with.
StartOf(invs) ==
    /\ pc = "idle"
    /\ \E inv \in invs :
        /\ cmd' = inv.cmd
        /\ arg' = inv.arg
        /\ h' = NewHistory(disk, h)
        /\ IF validate_config(disk)
             THEN /\ mem' = disk
                  /\ pc' = CASE inv.cmd = "login" -> "login"
                             [] inv.cmd = "logout" -> "logout"
                             [] inv.cmd = "import" -> "import_load"
                             [] OTHER -> "verify"
                  /\ UNCHANGED <<exit, err>>
             ELSE /\ mem' = disk
                  /\ Finish(2, "InvalidConfig")
    /\ UNCHANGED <<now, ticks, disk, loc, token>>

Start == StartOf(Invocations)

\* The process is gone; the next one starts from the module's defaults.
Exit ==
    /\ pc = "done"
    /\ pc' = "idle"
    /\ mem' = data
    /\ loc' = NoLoc
    /\ token' = None
    /\ cmd' = "-"
    /\ arg' = NoArg
    /\ exit' = NoKey
    /\ err' = "none"
    /\ h' = [NewHistory(data, h)
               EXCEPT !.prevLogin = (cmd = "login" /\ h.outcome = "AUTHENTICATED")]
    /\ UNCHANGED <<now, ticks, disk>>

\* logout, lines 849-853.
Logout ==
    /\ pc = "logout"
    /\ mem' = logout(mem)
    /\ disk' = write_config(mem')
    /\ h' = [h EXCEPT !.loggedOut = TRUE]
    /\ Finish(0, "none")
    /\ UNCHANGED <<now, ticks, loc, token, cmd, arg>>

\* import_backup, lines 1035-1058: the import file is read before the session
\* is looked at.
ImportLoad ==
    /\ pc = "import_load"
    /\ CASE arg.file \in {"missing", "unparsable"} -> Finish(0, "FileError")
         [] arg.file = "badext" /\ arg.kind = "update" -> Finish(1, "Exception")
         [] OTHER -> pc' = "verify" /\ UNCHANGED <<exit, err>>
    /\ UNCHANGED <<now, ticks, disk, mem, loc, token, cmd, arg, h>>

\* Where a command goes once verify_token has returned.
AfterVerify ==
    CASE cmd = "list" -> "list_fetch"
      [] cmd \in {"get", "describe"} /\ arg.kind = "notification" -> "notifications"
      [] cmd \in {"get", "describe", "delete", "export"} -> "progress"
      [] cmd = "logs" -> "logs_fetch"
      [] cmd = "run" -> "run"
      [] cmd = "abort" -> "abort"
      [] cmd = "import" /\ arg.kind = "update" -> "update"
      [] OTHER -> "import"

\* The session as the properties speak of it: is there a token, and where is
\* token_expires with respect to the clock.
Session(d, t) ==
    IF d.token \in {None, NoKey} THEN "absent"
    ELSE IF d.token_expires \in {None, NoKey} THEN "partial"
    ELSE IF d.token_expires > t THEN "future"
    ELSE IF d.token_expires = t THEN "equal"
    ELSE "past"

\* verify_token as the first statement of list_resources, fetch_notifications,
\* fetch_backups, get_logs, run_backup, abort_task, delete_backup, update_backup
\* and of import_backup after the file is loaded.  delete_backup calls it and
\* then fetch_backups calls it again at once, with the same answer.
VerifyToken ==
    /\ pc = "verify"
    /\ LET res == verify_token(mem, now)
       IN  /\ h' = [h EXCEPT !.auth = res, !.session = Session(mem, now)]
           /\ IF res # "ok" THEN Finish(2, "Unauthenticated")
              ELSE IF cmd = "logs" /\ arg.kind = "noid" THEN Finish(2, "Usage")
              ELSE IF cmd = "import" /\ arg.file = "badext" THEN Finish(1, "Exception")
              ELSE pc' = AfterVerify /\ UNCHANGED <<exit, err>>
    /\ UNCHANGED <<now, ticks, disk, mem, loc, token, cmd, arg>>


\* A request of a function whose `data` is main's dict: the response goes
\* through check_response, which refreshes and saves on 200.
Checked(status) ==
    /\ mem' = check_response(mem, status, now)
    /\ disk' = check_response_file(disk, mem, status, now)
    /\ h' = Sent(status)

\* The error a function reports for a status it does not accept.
Reported(status, e) == IF status = 200 THEN err ELSE e

\* run_backup, lines 665-674.
RunBackup ==
    /\ pc = "run"
    /\ \E status \in Statuses :
        /\ Checked(status)
        /\ IF CheckExits(status) THEN Finish(2, CheckError(status))
           ELSE Finish(0, Reported(status, "RequestFailed"))
    /\ UNCHANGED <<now, ticks, loc, token, cmd, arg>>

\* abort_task, lines 681-690.
AbortTask ==
    /\ pc = "abort"
    /\ \E status \in Statuses :
        /\ Checked(status)
        /\ IF CheckExits(status) THEN Finish(2, CheckError(status))
           ELSE Finish(0, Reported(status, "RequestFailed"))
    /\ UNCHANGED <<now, ticks, loc, token, cmd, arg>>

\* update_backup, lines 728-745.
UpdateBackup ==
    /\ pc = "update"
    /\ \E status \in Statuses :
        /\ Checked(status)
        /\ IF CheckExits(status) THEN Finish(2, CheckError(status))
           ELSE IF status = 404 THEN Finish(0, "NotFound")
           ELSE Finish(0, Reported(status, "RequestFailed"))
    /\ UNCHANGED <<now, ticks, loc, token, cmd, arg>>

\* import_backup, lines 1062-1088.
ImportBackup ==
    /\ pc = "import"
    /\ \E status \in Statuses :
        /\ Checked(status)
        /\ IF CheckExits(status) THEN Finish(2, CheckError(status))
           ELSE IF status # 200 THEN Finish(2, "RequestFailed")
           ELSE Finish(0, err)
    /\ UNCHANGED <<now, ticks, loc, token, cmd, arg>>

\* list_resources, lines 172-180, once the list is fetched.
ListDone(empty) == IF empty THEN Finish(2, "NoItems") ELSE Finish(0, err)

\* fetch_resource_list, lines 202-212, called by list_resources directly or
\* through fetch_backup_list.
ListFetch ==
    /\ pc = "list_fetch"
    /\ \E status \in Statuses, empty \in BOOLEAN :
        /\ Checked(status)
        /\ IF CheckExits(status) THEN Finish(2, CheckError(status))
           ELSE IF status # 200 THEN Finish(2, "RequestFailed")
           ELSE IF arg.kind = "backups" THEN pc' = "list_progress" /\ UNCHANGED <<exit, err>>
           ELSE ListDone(empty)
    /\ UNCHANGED <<now, ticks, loc, token, cmd, arg>>

\* fetch_progress_state, lines 395-408: the status is looked at by the
\* function alone; check_response is not called.
fetch_progress_state(status) ==
    /\ h' = Sent(status)
    /\ UNCHANGED <<disk, mem>>

\* fetch_backup_list, lines 188-197, then list_resources.
ListProgress ==
    /\ pc = "list_progress"
    /\ \E status \in Statuses, empty \in BOOLEAN :
        /\ fetch_progress_state(status)
        /\ ListDone(empty)
    /\ UNCHANGED <<now, ticks, loc, token, cmd, arg>>

\* fetch_backups, lines 361-366.
FetchProgress ==
    /\ pc = "progress"
    /\ \E status \in Statuses : fetch_progress_state(status)
    /\ pc' = "backup"
    /\ loc' = NoLoc
    /\ UNCHANGED <<now, ticks, token, cmd, arg, exit, err>>

\* fetch_backups, line 376: what the name `data` is bound to after an id is
\* answered with 200.
Rebind(d) == backup_json

\* A loop that runs once more than there are ids.
LastIdOneMore(i, n) == i = n + 1

\* fetch_backups, line 368: the id at index i is the last of the n given.
LastId(i, n) == i = n

\* fetch_backups, lines 368-390, one id of the loop, and what the caller does
\* with the result up to its next request: get_resources and describe_resource
\* print it, delete_backup asks or deletes, export_backup fetches systeminfo.
FetchBackup ==
    /\ pc = "backup"
    /\ \E status \in Statuses :
        LET d == IF loc.alias THEN mem ELSE loc.d
            d2 == check_response(d, status, now)
            got == loc.got + (IF status = 200 THEN 1 ELSE 0)
            last == LastId(loc.i, arg.n)
            e == Reported(status, "RequestFailed")
        IN  /\ disk' = check_response_file(disk, d, status, now)
            /\ mem' = IF loc.alias THEN d2 ELSE mem
            /\ h' = Sent(status)
            /\ IF CheckExits(status)
                 THEN Finish(2, CheckError(status)) /\ UNCHANGED loc
                 ELSE /\ loc' = IF status = 200
                                  THEN [alias |-> FALSE, d |-> Rebind(d2),
                                        i |-> loc.i + 1, got |-> got]
                                  ELSE [loc EXCEPT !.i = @ + 1]
                      /\ IF ~last THEN pc' = "backup" /\ err' = e /\ UNCHANGED exit
                         ELSE IF got = 0 THEN Finish(2, e)
                         ELSE IF cmd = "delete"
                           THEN /\ pc' = IF arg.confirm THEN "delete" ELSE "confirm"
                                /\ err' = e /\ UNCHANGED exit
                         ELSE IF cmd = "export"
                           THEN pc' = "systeminfo" /\ err' = e /\ UNCHANGED exit
                         ELSE Finish(0, e)
    /\ UNCHANGED <<now, ticks, token, cmd, arg>>

\* delete_backup, lines 702-708: the answer to the prompt.
DeleteConfirm ==
    /\ pc = "confirm"
    /\ \E agree \in BOOLEAN :
        IF agree THEN pc' = "delete" /\ UNCHANGED <<exit, err>>
        ELSE Finish(0, err)
    /\ UNCHANGED <<now, ticks, disk, mem, loc, token, cmd, arg, h>>

\* delete_backup, lines 710-722.
DeleteBackup ==
    /\ pc = "delete"
    /\ \E status \in Statuses :
        /\ Checked(status)
        /\ IF CheckExits(status) THEN Finish(2, CheckError(status))
           ELSE Finish(0, Reported(status, "RequestFailed"))
    /\ UNCHANGED <<now, ticks, loc, token, cmd, arg>>

\* export_backup, lines 1110-1147: fetch_resource_list("systeminfo"), then the
\* file is written (or the user declines to overwrite it).
SystemInfo ==
    /\ pc = "systeminfo"
    /\ \E status \in Statuses, version \in BOOLEAN :
        /\ Checked(status)
        /\ IF CheckExits(status) THEN Finish(2, CheckError(status))
           ELSE IF status # 200 THEN Finish(2, "RequestFailed")
           ELSE IF ~version THEN Finish(2, "ExportFailed")
           ELSE Finish(0, err)
    /\ UNCHANGED <<now, ticks, loc, token, cmd, arg>>

\* fetch_notifications, lines 309-332: on a status other than 200 the loop
\* runs over the keys of the configuration dict and raises AttributeError.
FetchNotifications ==
    /\ pc = "notifications"
    /\ \E status \in Statuses :
        /\ Checked(status)
        /\ IF CheckExits(status) THEN Finish(2, CheckError(status))
           ELSE IF status # 200 THEN Finish(1, "Exception")
           ELSE Finish(0, err)
    /\ UNCHANGED <<now, ticks, loc, token, cmd, arg>>

\* get_backup_logs / get_live_logs / get_stored_logs, called once by get_logs
\* or again and again by follow_function.
LogsFetch ==
    /\ pc = "logs_fetch"
    /\ \E status \in Statuses :
        /\ Checked(status)
        /\ IF CheckExits(status) THEN Finish(2, CheckError(status))
           ELSE IF arg.follow
             THEN /\ pc' = "sleep"
                  /\ err' = Reported(status, "RequestFailed")
                  /\ UNCHANGED exit
           ELSE Finish(0, Reported(status, "RequestFailed"))
    /\ UNCHANGED <<now, ticks, loc, token, cmd, arg>>

\* follow_function, line 656: time.sleep(interval), one more advance of the clock.
Sleep ==
    /\ pc = "sleep"
    /\ ticks < MaxTicks
    /\ now' = now + FollowInterval
    /\ ticks' = ticks + 1
    /\ pc' = "logs_fetch"
    /\ UNCHANGED <<disk, mem, loc, token, cmd, arg, exit, err, h>>

\* follow_function, lines 657-658: KeyboardInterrupt during the fetch or the sleep.
Interrupt ==
    /\ arg.follow
    /\ pc \in {"logs_fetch", "sleep"}
    /\ Finish(0, err)
    /\ UNCHANGED <<now, ticks, disk, mem, loc, token, cmd, arg, h>>

\* The request login sends at pc.
LoginRequest ==
    CASE pc = "login" -> "probe"
      [] pc = "login_nonce" -> "get-nonce"
      [] OTHER -> "password"

\* A probe answered 302 or 404 is taken as the demand for a password.
ChallengeOrNotFound(status) == status \in {302, 404}

\* login, line 793: the probe's answer that demands a password.
Challenge(status) == status = 302

\* What the history keeps of a request of login.
LoginSent(status, outcome) ==
    [h EXCEPT !.nreq = @ + 1,
              !.status = status,
              !.log = Append(@, [req |-> LoginRequest, status |-> status]),
              !.outcome = outcome,
              !.loggedOut = IF outcome = "AUTHENTICATED" THEN FALSE ELSE @]

\* login, lines 751-792 and 833-845: the override is resolved, the server
\* root is requested without cookies, and 200 ends the login.  Without an
\* override (input_url is None) line 771 reads `port` before any assignment:
\* UnboundLocalError, which nothing catches.
LoginProbe ==
    /\ pc = "login"
    /\ LET p == ParseUrl(arg.url)
           m1 == [mem EXCEPT !.server = ResolveServer(mem, p)]
       IN  IF ~arg.override
             THEN Finish(1, "Exception") /\ UNCHANGED <<disk, mem, token, h>>
           ELSE IF ~p.ok
             THEN Finish(2, "InvalidURL") /\ UNCHANGED <<disk, mem, token, h>>
           ELSE \E status \in Statuses, tok \in Tokens :
             LET m2 == check_response(m1, status, now)
                 f2 == check_response_file(disk, m1, status, now)
                 m3 == Authenticated(m2, tok, now)
             IN  IF CheckExits(status)
                   THEN /\ Finish(2, CheckError(status))
                        /\ mem' = m1
                        /\ h' = LoginSent(status, "FAILED")
                        /\ UNCHANGED <<disk, token>>
                 ELSE IF status = 200
                   THEN /\ Finish(0, "none")
                        /\ mem' = m3
                        /\ disk' = write_config(m3)
                        /\ token' = tok
                        /\ h' = [LoginSent(status, "AUTHENTICATED")
                                   EXCEPT !.hsToken = tok, !.mid = <<f2>>]
                 ELSE IF Challenge(status)
                   THEN /\ pc' = "login_nonce"
                        /\ mem' = m2
                        /\ disk' = f2
                        /\ h' = LoginSent(status, "none")
                        /\ UNCHANGED <<token, exit, err>>
                 ELSE /\ Finish(0, "ConnectionError")
                      /\ mem' = m2
                      /\ disk' = f2
                      /\ h' = LoginSent(status, "FAILED")
                      /\ UNCHANGED token
    /\ UNCHANGED <<now, ticks, loc, cmd, arg>>

\* login, lines 794-809: the password is there (given or typed), and the
\* nonce and salt are requested.
LoginNonce ==
    /\ pc = "login_nonce"
    /\ \E status \in Statuses, tok \in Tokens, nonce \in Nonces :
        IF status # 200
          THEN /\ Finish(0, "NonceFailed")
               /\ h' = LoginSent(status, "FAILED")
               /\ UNCHANGED <<mem, token>>
          ELSE /\ pc' = "login_auth"
               /\ mem' = [mem EXCEPT !.nonce = nonce]
               /\ token' = tok
               /\ h' = [LoginSent(status, "none") EXCEPT !.hsToken = tok]
               /\ UNCHANGED <<exit, err>>
    /\ UNCHANGED <<now, ticks, disk, loc, cmd, arg>>

\* login, lines 810-845: the digest is posted with the xsrf-token and
\* session-nonce cookies.
LoginAuth ==
    /\ pc = "login_auth"
    /\ \E status \in Statuses, auth \in SessionAuths :
        LET m2 == check_response(mem, status, now)
            f2 == check_response_file(disk, mem, status, now)
            m3 == Authenticated([m2 EXCEPT !.session_auth = auth], token, now)
        IN  IF CheckExits(status)
              THEN /\ Finish(2, CheckError(status))
                   /\ h' = LoginSent(status, "FAILED")
                   /\ UNCHANGED <<disk, mem>>
            ELSE IF status = 200
              THEN /\ Finish(0, "none")
                   /\ mem' = m3
                   /\ disk' = write_config(m3)
                   /\ h' = [LoginSent(status, "AUTHENTICATED") EXCEPT !.mid = <<f2>>]
            ELSE /\ Finish(2, "AuthenticationFailed")
                 /\ mem' = m2
                 /\ disk' = f2
                 /\ h' = LoginSent(status, "FAILED")
    /\ UNCHANGED <<now, ticks, loc, token, cmd, arg>>

Next ==
    \/ Tick
    \/ Start
    \/ Exit
    \/ Logout
    \/ ImportLoad
    \/ VerifyToken
    \/ RunBackup
    \/ AbortTask
    \/ UpdateBackup
    \/ ImportBackup
    \/ ListFetch
    \/ ListProgress
    \/ FetchProgress
    \/ FetchBackup
    \/ DeleteConfirm
    \/ DeleteBackup
    \/ SystemInfo
    \/ FetchNotifications
    \/ LogsFetch
    \/ Sleep
    \/ Interrupt
    \/ LoginProbe
    \/ LoginNonce
    \/ LoginAuth

Spec == Init /\ [][Next]_vars

\* ------------------------------------------------- login, over its inputs
\* A file left by an earlier login with a password.
PreviousConfig ==
    [server |-> <<HTTPS, <<"s", "r", "v">>, <<"8", "2">>>>,
     token |-> 1,
     token_expires |-> TTL,
     last_login |-> 0,
     nonce |-> 1,
     session_auth |-> 1,
     verbose |-> FALSE]

\* login(data, input_url): every override of UrlInputs, and none at all
\* (the default of the parameter).
LoginCalls ==
    {[cmd |-> "login", arg |-> [NoArg EXCEPT !.url = u]] : u \in UrlInputs}
    \cup {[cmd |-> "login", arg |-> [NoArg EXCEPT !.override = FALSE]]}

InitLogin ==
    /\ now = 0
    /\ ticks = 0
    /\ disk \in {write_config(data), write_config(PreviousConfig)}
    /\ mem = data
    /\ loc = NoLoc
    /\ token = None
    /\ pc = "idle"
    /\ cmd = "-"
    /\ arg = NoArg
    /\ exit = NoKey
    /\ err = "none"
    /\ h = NewHistory(disk, [loggedOut |-> FALSE, prevLogin |-> FALSE])

StartLogin == StartOf(LoginCalls)

NextLogin ==
    \/ StartLogin
    \/ LoginProbe
    \/ LoginNonce
    \/ LoginAuth

SpecLogin == InitLogin /\ [][NextLogin]_vars


\* --------------------------------------- a second process on the same file
\* Another process runs `logout` on the same configuration file while this
\* one is anywhere between its start and its end: load_config, logout and
\* its write_config do not block, so they are one step.
ConcurrentLogout ==
    /\ pc \notin {"idle", "done"}
    /\ validate_config(disk)
    /\ disk' = write_config(logout(disk))
    /\ h' = [h EXCEPT !.loggedOut = TRUE]
    /\ UNCHANGED <<now, ticks, mem, loc, token, pc, cmd, arg, exit, err>>

NextRace ==
    \/ Next
    \/ ConcurrentLogout

SpecRace == Init /\ [][NextRace]_vars

\* ------------------------------------------------------------- properties
\* The session fields of a configuration dict.
SessionFields(d) == <<d.token, d.nonce, d.session_auth, d.token_expires, d.last_login>>

\* C1: when verify_token finds a token and a token_expires later than the
\* clock, it returns (no "Not logged in", no "Token expired"), and up to the
\* command's first request the dict in memory and the file are those the
\* invocation loaded.
C1_ValidSessionPasses ==
    (cmd \in AuthCmds /\ h.session = "future")
        => /\ h.auth = "ok"
           /\ err # "Unauthenticated"
           /\ (h.nreq = 0 => mem = h.disk0 /\ disk = h.disk0)

C1_Witness ==
    /\ cmd \in AuthCmds
    /\ h.session = "future"
    /\ h.auth = "ok"
    /\ h.nreq = 0
    /\ pc \notin {"verify", "done"}

\* The configuration passed validate_config, and the session was absent when
\* the invocation started or expired when verify_token looked at it.
NoSession ==
    /\ cmd \in AuthCmds
    /\ validate_config(h.disk0)
    /\ (h.disk0.token = None \/ h.session = "past")

C3_LogoutEndsSession ==
    h.loggedOut
        => /\ disk.token = None
           /\ h.auth \in {"none", "NotLoggedIn"}
           /\ (h.auth # "none" => pc = "done" /\ err = "Unauthenticated" /\ exit = 2)
           /\ (cmd \in AuthCmds => h.nreq = 0)

C3_Witness ==
    /\ h.loggedOut
    /\ cmd \in AuthCmds
    /\ h.auth = "NotLoggedIn"
    /\ disk.token_expires # None
    /\ disk.token_expires > now + 1

\* C4 as stated: every 200 to a request of an authenticated command sets
\* token_expires, in memory and in the file, to the time of the call + 600 s.
C4_Original ==
    [][(cmd \in AuthCmds /\ h'.nreq = h.nreq + 1 /\ h'.status = 200)
          => /\ mem'.token_expires = now + TTL
             /\ disk'.token_expires = now + TTL]_vars

\* C5 as stated: an authenticated command of which a request was answered
\* 400 ends with SessionExpired and a non-zero status, with token_expires,
\* in memory and in the file, as it was when the 400 arrived.
C5_Original ==
    (cmd \in AuthCmds /\ h.exp400 # NoKey /\ pc = "done")
        => /\ err = "SessionExpired"
           /\ exit # 0
           /\ mem.token_expires = h.exp400
           /\ disk.token_expires = h.exp400

\* The step in which a login reaches AUTHENTICATED.
BecomesAuthenticated == h.outcome # "AUTHENTICATED" /\ h'.outcome = "AUTHENTICATED"

\* C6: the step that reaches AUTHENTICATED leaves in the file the token the
\* server set in this login, token_expires = now + 600 and last_login = now;
\* and a verify_token of the next invocation, less than 600 s after that
\* login, succeeds.
C6_LoginPersistsSession ==
    /\ [][BecomesAuthenticated
            => /\ disk'.token = h'.hsToken
               /\ disk'.token \in Tokens
               /\ disk'.token_expires = now + TTL
               /\ disk'.last_login = now]_vars
    /\ [][(h.prevLogin /\ pc = "verify" /\ pc' # "verify"
              /\ now < mem.last_login + TTL)
            => h'.auth = "ok"]_vars

C6_Witness ==
    /\ h.prevLogin
    /\ h.auth = "ok"
    /\ h.session = "future"
    /\ mem.last_login < now
    /\ mem.token_expires = mem.last_login + TTL

\* C7: a login that ends in FAILED leaves token, nonce, session-auth,
\* token_expires and last_login of the file as they were when it started.
C7_FailedLoginKeepsSession ==
    (cmd = "login" /\ h.outcome = "FAILED")
        => SessionFields(disk) = SessionFields(h.disk0)

C7_Witness ==
    /\ cmd = "login"
    /\ h.outcome = "FAILED"
    /\ h.nreq = 3
    /\ err = "AuthenticationFailed"
    /\ mem.nonce # h.disk0.nonce

\* C8 as stated: when the clock equals token_expires, verify_token fails
\* with Unauthenticated.
C8_Original ==
    (cmd \in AuthCmds /\ h.session = "equal")
        => h.auth # "ok" /\ pc = "done" /\ err = "Unauthenticated"

\* C9 as stated: every request with the session's cookies is sent while the
\* token is present and the clock is before token_expires; here for the
\* requests that follow the first one of the invocation (a poll of the follow
\* loop, the request after the prompt, the next request of a command that
\* sends several).
C9_Original == cmd \in AuthCmds => ~h.badReq

\* C9 as amended: every request of an authenticated command is sent after
\* verify_token has returned in the same invocation, that is after a moment
\* at which the token was present and the clock was not after token_expires;
\* the session is not looked at again before the later requests.
C9_RequestsFollowVerify ==
    (cmd \in AuthCmds /\ h.nreq > 0)
        => h.auth = "ok" /\ h.session \in {"future", "equal"}

C9_Witness ==
    /\ cmd \in AuthCmds
    /\ h.nreq > 1
    /\ h.badReq
    /\ h.auth = "ok"
    /\ now > mem.token_expires

\* C10 as stated: an invocation that reported a failure ends with a non-zero
\* exit status.
C10_Original == (pc = "done" /\ err # "none") => exit # 0

\* The step in which logout runs.
LogoutRuns == pc = "logout" /\ pc' = "done"

\* C11: logout leaves the dict in memory and the file equal to the record it
\* loaded with token = None and every other key as it was; a logout that
\* follows a logout leaves the file as the first one left it.
C11_LogoutClearsTokenOnly ==
    /\ [][LogoutRuns
            => /\ mem' = [h.disk0 EXCEPT !.token = None]
               /\ disk' = [disk EXCEPT !.token = None]
               /\ mem'.token = None]_vars
    /\ [][(LogoutRuns /\ h.loggedOut) => disk' = disk /\ mem' = disk]_vars

C11_Witness ==
    /\ cmd = "logout"
    /\ pc = "done"
    /\ h.disk0.token = None
    /\ h.disk0.token_expires # None
    /\ h.disk0.nonce # NoKey
    /\ h.disk0.session_auth # NoKey
    /\ h.disk0.server # data.server
    /\ disk = h.disk0

\* C12 as stated: an invocation whose request was answered 503 fails with
\* ServerUnavailable and a non-zero exit status; here for the invocations
\* whose last response was the 503.
C12_Original ==
    (pc = "done" /\ h.status = 503) => err = "ServerUnavailable" /\ exit # 0

\* A login that has ended with AUTHENTICATED after the probe alone (200).
DirectOk == cmd = "login" /\ pc = "done" /\ h.outcome = "AUTHENTICATED" /\ h.nreq = 1

\* C13 as stated: after a login whose probe was answered 200 the file holds
\* no nonce and no session-auth cookie, and the cookies of a request made
\* from it are the xsrf-token alone.
C13_Original ==
    DirectOk
        => /\ disk.nonce \in {None, NoKey}
           /\ disk.session_auth \in {None, NoKey}
           /\ DOMAIN create_cookies(disk) = {"xsrf-token"}

\* The rules as the claim states them, applied to the override as given:
\* 2 colons, protocol:host:port; 1 colon before index 6, protocol:host;
\* 1 colon elsewhere, host:port; no colon, host; otherwise invalid.
StatedParse(u) ==
    LET count == Count(u, ":")
        parts == Split(u, ":")
    IN  IF count = 2
          THEN [ok |-> TRUE, protocol |-> parts[1], url |-> parts[2], port |-> parts[3]]
        ELSE IF count = 1 /\ Index(u, ":") < 6
          THEN [ok |-> TRUE, protocol |-> parts[1], url |-> parts[2], port |-> <<>>]
        ELSE IF count = 1
          THEN [ok |-> TRUE, protocol |-> <<>>, url |-> parts[1], port |-> parts[2]]
        ELSE IF count = 0
          THEN [ok |-> TRUE, protocol |-> <<>>, url |-> u, port |-> <<>>]
        ELSE [ok |-> FALSE, protocol |-> <<>>, url |-> <<>>, port |-> <<>>]

\* login has dealt with its override: it has left or passed line 784.
Resolved == cmd = "login" /\ arg.override /\ pc # "login"

\* C14 as stated: the server login works with is the one the rules give for
\* the override, and an override with 3 colons or more ends login with
\* InvalidURL and a non-zero status before a request or a write; here for
\* the overrides without "/".
C14_Original ==
    (Resolved /\ Count(arg.url, "/") = 0)
        => LET q == StatedParse(arg.url)
           IN  IF q.ok
                 THEN mem.server = ResolveServer(h.disk0, q)
               ELSE /\ pc = "done" /\ err = "InvalidURL" /\ exit # 0
                    /\ h.nreq = 0 /\ disk = h.disk0 /\ mem = h.disk0

\* What a call of login supplies: the parts of its override, or nothing.
Supplied ==
    IF arg.override THEN ParseUrl(arg.url)
    ELSE [ok |-> TRUE, protocol |-> <<>>, url |-> <<>>, port |-> <<>>]

C16_LoginProtocolOrder ==
    cmd = "login"
        => LET L == h.log
           IN  /\ Len(L) = h.nreq /\ Len(L) <= 3
               /\ (Len(L) >= 1 => L[1].req = "probe")
               /\ (Len(L) >= 2 => L[1].status = 302 /\ L[2].req = "get-nonce")
               /\ (Len(L) >= 3 => L[2].status = 200 /\ L[3].req = "password")
               /\ (h.outcome = "AUTHENTICATED"
                     => \/ Len(L) = 1 /\ L[1].status = 200
                        \/ Len(L) = 3 /\ L[3].status = 200)
               /\ ((Len(L) >= 1 /\ L[1].status # 302) => pc = "done")
               /\ ((Len(L) >= 2 /\ L[2].status # 200) => pc = "done")

C16_Witness ==
    /\ cmd = "login"
    /\ h.outcome = "AUTHENTICATED"
    /\ Len(h.log) = 3
    /\ h.log[3].req = "password"

\* C17 as stated: when a login with an override has ended in FAILED, the
\* server of the file is the one login resolved (and works with in memory).
C17_Original ==
    (cmd = "login" /\ arg.override /\ h.outcome = "FAILED")
        => disk.server = ResolveServer(h.disk0, ParseUrl(arg.url))

\* A response with a status other than 200, 400 and 503 arrives.
OtherStatus == h'.nreq = h.nreq + 1 /\ h'.status \notin {200, 400, 503}

\* C18: a response with a status other than 200, 400 and 503 leaves the
\* session fields of the dict in memory and the file as they were, and the
\* process is not ended by check_response (no SessionExpired, no
\* ServerUnavailable): what follows is the caller's own handling.
C18_OtherStatusNoChange ==
    [][OtherStatus
         => /\ SessionFields(mem') = SessionFields(mem)
            /\ disk' = disk
            /\ err' \notin {"SessionExpired", "ServerUnavailable"}]_vars

C18_Witness ==
    /\ cmd = "get"
    /\ h.status = 404
    /\ h.nreq = 2
    /\ pc = "backup"
    /\ mem = h.disk0
    /\ disk = h.disk0

\* C19 as stated: in follow mode a fetch answered with a status other than
\* 200 is the last request of the process: no request follows it.
C19_Original ==
    [][(cmd = "logs" /\ arg.follow /\ h.nreq >= 1 /\ h.status # 200)
         => h'.nreq <= h.nreq]_vars

\* C20 as stated: when a command has finished, and in a login once two
\* requests have been answered, the dict in memory and the file are equal.
C20_Original ==
    /\ (pc = "done" => mem = disk)
    /\ ((cmd = "login" /\ h.nreq >= 2) => mem = disk)

\* C21 as stated: an invocation of login sends at most 2 requests, and an
\* invocation of an authenticated command outside follow mode at most 1.
C21_Original ==
    /\ (cmd = "login" => h.nreq <= 2)
    /\ ((cmd \in AuthCmds /\ ~arg.follow) => h.nreq <= 1)

\* The most requests one invocation of a command sends.
MaxRequests ==
    CASE cmd = "login" -> 3
      [] cmd = "logout" -> 0
      [] cmd = "list" -> IF arg.kind = "backups" THEN 2 ELSE 1
      [] cmd \in {"get", "describe"} /\ arg.kind = "notification" -> 1
      [] cmd \in {"get", "describe"} -> 1 + arg.n
      [] cmd \in {"delete", "export"} -> 3
      [] cmd = "logs" /\ arg.follow -> 1 + ticks
      [] OTHER -> 1

\* C21 as amended: the requests of an invocation are sent one after the other
\* (the process waits for each response), and there are at most: 3 for login
\* (probe, nonce, password), 2 for `list backups` (the list and the progress
\* state), 1 + the number of ids for get and describe of backups, 3 for
\* delete and export, 1 for every other command, and 1 for each iteration of
\* follow mode.
C21_RequestCounts ==
    /\ h.nreq <= MaxRequests
    /\ (cmd = "-" => h.nreq = 0)

C21_Witness ==
    /\ cmd = "delete"
    /\ pc = "done"
    /\ h.nreq = 3
    /\ h.status = 200

\* A record with a token and without token_expires.
Partial(d) == d.token \notin {None, NoKey} /\ d.token_expires \in {None, NoKey}

\* C22: no record written to the file (the one it holds, and the one a login
\* wrote on its way) has a token without token_expires: the session of the
\* file is absent, or present with both.
C22_NoPartialSession ==
    /\ ~Partial(disk)
    /\ \A i \in 1..Len(h.mid) : ~Partial(h.mid[i])

C22_Witness ==
    /\ cmd \in AuthCmds
    /\ h.status = 200
    /\ disk.token \in Tokens
    /\ disk.token_expires = now + TTL
    /\ disk.last_login # None
    /\ now > disk.last_login

\* C23 as stated: the record in the configuration file is one that
\* validate_config accepts.
C23_Original == validate_config(disk)

\* A record that holds the token, the session-auth cookie and last_login of
\* the session found by this login, with a nonce or a token_expires that
\* the session did not have.
Mixed(r) ==
    /\ r.token = h.disk0.token
    /\ r.session_auth = h.disk0.session_auth
    /\ r.last_login = h.disk0.last_login
    /\ (r.nonce # h.disk0.nonce \/ r.token_expires # h.disk0.token_expires)

\* C24 as stated: a login with a password that found a session in the file
\* writes no record that joins the new nonce or a refreshed token_expires
\* to the token and session-auth cookie of that session.
C24_Original ==
    (cmd = "login" /\ h.nreq = 3 /\ h.disk0.token \notin {None, NoKey})
        => /\ ~Mixed(disk)
           /\ \A i \in 1..Len(h.mid) : ~Mixed(h.mid[i])

\* C25 as stated: from a logout, of this process or of another one, until a
\* login reaches AUTHENTICATED, the file holds no token.
C25_Original == h.loggedOut => disk.token \in {None, NoKey}

\* C25 as amended: the race is not defended.  A token comes back into a file
\* that held none only by a login that reaches AUTHENTICATED, or by an
\* authenticated command that loaded the record before the logout and is
\* answered 200 after it: check_response then writes the whole dict of that
\* command, its token included, over the file.
C25_TokenReturns ==
    [][(disk.token \in {None, NoKey} /\ disk'.token \notin {None, NoKey})
         => \/ cmd = "login" /\ BecomesAuthenticated
            \/ /\ cmd \in AuthCmds
               /\ h'.nreq = h.nreq + 1
               /\ h'.status = 200
               /\ h.auth = "ok"
               /\ disk' = mem'
               /\ disk'.token = mem.token]_vars

C25_Witness ==
    /\ h.loggedOut
    /\ cmd \in AuthCmds
    /\ h.status = 200
    /\ disk.token \in Tokens
    /\ disk = mem
    /\ h.disk0.token \in Tokens

\* The override is host:port: one colon, before it a host that is not
\* empty (and here: without "/" and "_", and not the name of a protocol),
\* after it a port made of digits.
HostPort(u) ==
    /\ Count(u, ":") = 1
    /\ LET parts == Split(u, ":")
       IN  /\ parts[1] # <<>>
           /\ Count(parts[1], "/") = 0
           /\ Count(parts[1], "_") = 0
           /\ Lower(parts[1]) \notin {HTTP, HTTPS, <<"f", "t", "p">>}
           /\ parts[2] # <<>>
           /\ StripNonDigits(parts[2]) = parts[2]

ExpirySet(d) == d.token_expires \notin {None, NoKey}

\* C27: whenever token_expires is set, in the file or in memory, it is at
\* most now + 600; and no step of a command (a login, a logout, a response)
\* unsets it or moves it to an earlier value, the clock never going back.
C27_ExpiryBounded ==
    /\ [](/\ ExpirySet(disk) => disk.token_expires <= now + TTL
          /\ ExpirySet(mem) => mem.token_expires <= now + TTL)
    /\ [][/\ now' >= now
          /\ ExpirySet(disk)
                => ExpirySet(disk') /\ disk'.token_expires >= disk.token_expires
          /\ (ExpirySet(mem) /\ pc \notin {"idle", "done"})
                => ExpirySet(mem') /\ mem'.token_expires >= mem.token_expires]_vars

C27_Witness ==
    /\ cmd \in AuthCmds
    /\ ExpirySet(h.disk0)
    /\ ExpirySet(disk)
    /\ disk.token_expires > h.disk0.token_expires
    /\ disk.token_expires = now + TTL
    /\ mem.token_expires = now + TTL


====
